---- MODULE Spec2Model ----
(***************************************************************************)
(* Model of vendor_patch/webview/libs/mswebview2/include/EventToken.h.     *)
(*                                                                         *)
(* The header is a guarded type declaration.  What it does is decided by   *)
(* the C preprocessor (the #ifndef/#define/#include/#endif lines), by the  *)
(* compiler's struct layout of the one declaration it emits, and by the    *)
(* value semantics of the declared type.  The model has two parts:         *)
(*   - translation units that include the header (and possibly another     *)
(*     header defining the same struct) under different build settings;    *)
(*   - token objects of the declared type that are stored to, copied,      *)
(*     modified and discarded.                                             *)
(***************************************************************************)
EXTENDS Integers, Sequences, FiniteSets, TLC

VARIABLES tus, objs, lastOp

vars == <<tus, objs, lastOp>>

(***************************************************************************)
(* Bounds.                                                                 *)
(***************************************************************************)
\* number of #include directives in the main file of a translation unit
MaxIncludes == 3
\* number of token objects alive at once
MaxObjs == 2

TUs == {1, 2}
ObjIds == 1..MaxObjs

(***************************************************************************)
(* The header, line by line (comment and blank lines produce nothing).     *)
(***************************************************************************)
Line(kind, name, toks) == [kind |-> kind, name |-> name, toks |-> toks]

Guard == "_EVENTTOKEN_H_"

HeaderLinesInt32 ==
    << Line("ifndef", Guard, <<>>),
       Line("define", Guard, <<>>),
       Line("include", "stdint.h", <<>>),
       Line("text", "", <<"typedef", "struct", "EventRegistrationToken", "{">>),
       Line("text", "", <<"int32_t", "value", ";">>),
       Line("text", "", <<"}", "EventRegistrationToken", ";">>),
       Line("endif", "", <<>>) >>

HeaderLinesUnguarded ==
    << Line("include", "stdint.h", <<>>),
       Line("text", "", <<"typedef", "struct", "EventRegistrationToken", "{">>),
       Line("text", "", <<"int64_t", "value", ";">>),
       Line("text", "", <<"}", "EventRegistrationToken", ";">>) >>

HeaderLinesTwoFields ==
    << Line("ifndef", Guard, <<>>),
       Line("define", Guard, <<>>),
       Line("include", "stdint.h", <<>>),
       Line("text", "", <<"typedef", "struct", "EventRegistrationToken", "{">>),
       Line("text", "", <<"char", "kind", ";">>),
       Line("text", "", <<"int64_t", "value", ";">>),
       Line("text", "", <<"}", "EventRegistrationToken", ";">>),
       Line("endif", "", <<>>) >>

HeaderLinesExtraDecl ==
    << Line("ifndef", Guard, <<>>),
       Line("define", Guard, <<>>),
       Line("include", "stdint.h", <<>>),
       Line("text", "", <<"typedef", "struct", "EventRegistrationToken", "{">>),
       Line("text", "", <<"int64_t", "value", ";">>),
       Line("text", "", <<"}", "EventRegistrationToken", ";">>),
       Line("text", "", <<"int64_t", "NextToken", "(", "void", ")", ";">>),
       Line("endif", "", <<>>) >>

HeaderLines ==
    << Line("ifndef", Guard, <<>>),                                           \* line 4
       Line("define", Guard, <<>>),                                           \* line 5
       Line("include", "stdint.h", <<>>),                                     \* line 7
       Line("text", "", <<"typedef", "struct", "EventRegistrationToken", "{">>), \* line 9
       Line("text", "", <<"int64_t", "value", ";">>),                         \* line 10
       Line("text", "", <<"}", "EventRegistrationToken", ";">>),              \* line 11
       Line("endif", "", <<>>) >>                                             \* line 13

(***************************************************************************)
(* A header of the same kind that is not this one: the same struct under   *)
(* the guard macro g.  It stands for the platform's own EventToken.h, the  *)
(* guard of which this repository does not choose.                         *)
(***************************************************************************)
OtherGuard == "__eventtoken_h__"
PlatformGuards == {Guard, OtherGuard}

PlatformLines(g) ==
    << Line("ifndef", g, <<>>),
       Line("define", g, <<>>),
       Line("text", "", <<"typedef", "struct", "EventRegistrationToken", "{">>),
       Line("text", "", <<"__int64", "value", ";">>),
       Line("text", "", <<"}", "EventRegistrationToken", ";">>),
       Line("endif", "", <<>>) >>

(***************************************************************************)
(* The preprocessor.  A macro table is a set of <<name, replacement>>.     *)
(***************************************************************************)
Defined(macros, n) == \E m \in macros : m[1] = n

Replacement(macros, n) == (CHOOSE m \in macros : m[1] = n)[2]

RECURSIVE Expand(_, _)
Expand(toks, macros) ==
    IF toks = <<>> THEN <<>>
    ELSE (IF Defined(macros, Head(toks))
             THEN Replacement(macros, Head(toks))
             ELSE <<Head(toks)>>) \o Expand(Tail(toks), macros)

RECURSIVE PreprocessNoSkip(_, _, _, _)
PreprocessNoSkip(lines, i, st, skip) ==
    IF i > Len(lines) THEN st
    ELSE LET l == lines[i] IN
         CASE l.kind = "define" ->
                PreprocessNoSkip(lines, i + 1,
                    [st EXCEPT !.macros =
                        {m \in @ : m[1] # l.name} \cup {<<l.name, <<>>>>}], skip)
           [] l.kind = "include" ->
                PreprocessNoSkip(lines, i + 1,
                    [st EXCEPT !.included = @ \cup {l.name}], skip)
           [] l.kind = "text" ->
                PreprocessNoSkip(lines, i + 1,
                    [st EXCEPT !.out = @ \o Expand(l.toks, st.macros)], skip)
           [] OTHER -> PreprocessNoSkip(lines, i + 1, st, skip)

\* st = [macros, included, out]; skip = depth of the conditional groups
\* being skipped (0: the current group is processed)
RECURSIVE Preprocess(_, _, _, _)
Preprocess(lines, i, st, skip) ==
    IF i > Len(lines) THEN st
    ELSE LET l == lines[i] IN
         CASE l.kind = "ifndef" ->
                Preprocess(lines, i + 1, st,
                    IF skip > 0 THEN skip + 1
                    ELSE IF Defined(st.macros, l.name) THEN 1 ELSE 0)
           [] l.kind = "endif" ->
                Preprocess(lines, i + 1, st, IF skip > 0 THEN skip - 1 ELSE 0)
           [] l.kind = "define" ->
                Preprocess(lines, i + 1,
                    IF skip > 0 THEN st
                    ELSE [st EXCEPT !.macros =
                            {m \in @ : m[1] # l.name} \cup {<<l.name, <<>>>>}],
                    skip)
           [] l.kind = "include" ->
                Preprocess(lines, i + 1,
                    IF skip > 0 THEN st
                    ELSE [st EXCEPT !.included = @ \cup {l.name}],
                    skip)
           [] OTHER ->
                Preprocess(lines, i + 1,
                    IF skip > 0 THEN st
                    ELSE [st EXCEPT !.out = @ \o Expand(l.toks, st.macros)],
                    skip)

(***************************************************************************)
(* The declarations the compiler sees in the preprocessed text.            *)
(***************************************************************************)
\* split the token stream at every ';' outside braces
RECURSIVE SplitDecls(_, _, _, _)
SplitDecls(toks, depth, cur, acc) ==
    IF toks = <<>> THEN (IF cur = <<>> THEN acc ELSE Append(acc, cur))
    ELSE LET t == Head(toks) IN
         IF t = ";" /\ depth = 0
         THEN SplitDecls(Tail(toks), 0, <<>>, Append(acc, cur))
         ELSE SplitDecls(Tail(toks),
                         IF t = "{" THEN depth + 1
                         ELSE IF t = "}" THEN depth - 1 ELSE depth,
                         Append(cur, t), acc)

Declarations(out) == SplitDecls(out, 0, <<>>, <<>>)

Pos(d, t) == CHOOSE i \in 1..Len(d) : d[i] = t /\ \A j \in 1..(i - 1) : d[j] # t

Has(d, t) == \E i \in 1..Len(d) : d[i] = t

IsStructDef(d) == Has(d, "struct") /\ Has(d, "{") /\ Pos(d, "{") = Pos(d, "struct") + 2

DeclKind(d) ==
    CASE IsStructDef(d) /\ d[1] = "typedef" -> "typedef struct"
      [] IsStructDef(d) -> "struct"
      [] d[1] = "typedef" -> "typedef"
      [] Has(d, "(") -> "function"
      [] OTHER -> "variable"

StructTag(d) == d[Pos(d, "struct") + 1]

TypedefName(d) == d[Len(d)]

\* the member declarations between the braces, each "type name ;"
RECURSIVE Members(_)
Members(body) ==
    IF Len(body) < 3 THEN <<>>
    ELSE <<[type |-> body[1], name |-> body[2]]>> \o Members(SubSeq(body, 4, Len(body)))

FieldsOf(d) == Members(SubSeq(d, Pos(d, "{") + 1, Pos(d, "}") - 1))

(***************************************************************************)
(* Struct layout as the compiler computes it.                              *)
(***************************************************************************)
Targets == {"x86_64-w64-mingw32", "i686-w64-mingw32", "i686-pc-linux-gnu"}

\* #pragma pack / -fpack-struct value in force; 0 is "none"
Packs == {0, 1, 2}

SizeOf(type) ==
    CASE type = "int64_t" -> 8
      [] type = "__int64" -> 8
      [] type = "int32_t" -> 4
      [] OTHER -> 1

AlignOf(type, target) ==
    IF SizeOf(type) = 8 /\ target = "i686-pc-linux-gnu" THEN 4 ELSE SizeOf(type)

Min(a, b) == IF a < b THEN a ELSE b
Max(a, b) == IF a < b THEN b ELSE a

FieldAlign(type, target, pack) ==
    IF pack > 0 THEN Min(pack, AlignOf(type, target)) ELSE AlignOf(type, target)

RoundUp(n, a) == ((n + a - 1) \div a) * a

RECURSIVE Place(_, _, _, _, _, _)
Place(fields, offset, align, acc, target, pack) ==
    IF fields = <<>>
    THEN [size |-> RoundUp(offset, align), align |-> align, fields |-> acc]
    ELSE LET f  == Head(fields)
             a  == FieldAlign(f.type, target, pack)
             at == RoundUp(offset, a)
         IN Place(Tail(fields), at + SizeOf(f.type), Max(align, a),
                  Append(acc, [name |-> f.name, type |-> f.type,
                               offset |-> at, size |-> SizeOf(f.type)]),
                  target, pack)

Layout(fields, target, pack) == Place(fields, 0, 1, <<>>, target, pack)

(***************************************************************************)
(* Translation units.                                                      *)
(***************************************************************************)
\* macros the build may define before the header is reached
EnvMacros == { <<"_WIN32", <<"1">>>> }

NewTU(target, pack, macros) ==
    [target |-> target, pack |-> pack, env |-> macros, macros |-> macros, included |-> {},
     out |-> <<>>, nShim |-> 0, nPlat |-> 0]

IncludeFile(tu, lines) ==
    LET st == Preprocess(lines, 1,
                  [macros |-> tu.macros, included |-> tu.included, out |-> tu.out], 0)
    IN [tu EXCEPT !.macros = st.macros, !.included = st.included, !.out = st.out]

\* #include "EventToken.h" in translation unit t
IncludeShim(t) ==
    /\ tus[t].nShim + tus[t].nPlat < MaxIncludes
    /\ tus' = [tus EXCEPT ![t] = [IncludeFile(@, HeaderLines) EXCEPT !.nShim = @ + 1]]
    /\ UNCHANGED <<objs, lastOp>>

\* translation unit t includes the other definition, guarded by g
IncludePlatform(t, g) ==
    /\ tus[t].nShim + tus[t].nPlat < MaxIncludes
    /\ tus' = [tus EXCEPT ![t] = [IncludeFile(@, PlatformLines(g)) EXCEPT !.nPlat = @ + 1]]
    /\ UNCHANGED <<objs, lastOp>>

\* what the compiler finds in translation unit t
Decls(t) == Declarations(tus[t].out)

TokenDefs(t) ==
    { i \in 1..Len(Decls(t)) :
        IsStructDef(Decls(t)[i]) /\ StructTag(Decls(t)[i]) = "EventRegistrationToken" }

LayoutIn(t, i) == Layout(FieldsOf(Decls(t)[i]), tus[t].target, tus[t].pack)

(***************************************************************************)
(* Token objects.  Integers too wide for the checker are little-endian     *)
(* two's complement byte sequences of IntBytes bytes; a token object is    *)
(* the bytes of its storage.                                               *)
(***************************************************************************)
\* width, in bytes, of the integers that are stored to a token
IntBytes == 9

\* the integer whose low seven bytes are m, whose eighth byte is hi and
\* whose remaining bytes are ext
MkInt(m, hi, ext) ==
    [i \in 1..IntBytes |-> IF i <= 7 THEN m ELSE IF i = 8 THEN hi ELSE ext]

TestInts == { MkInt(m, hi, ext) : m \in {0, 255}, hi \in {0, 127, 128, 255}, ext \in {0, 255} }

Int64Min == MkInt(0, 128, 255)
Int64Max == MkInt(255, 127, 0)
IntZero  == MkInt(0, 0, 0)

\* signed comparison of two integers of the same width
RECURSIVE ULessEq(_, _, _)
ULessEq(a, b, i) ==
    IF i = 0 THEN TRUE
    ELSE IF a[i] < b[i] THEN TRUE
    ELSE IF a[i] > b[i] THEN FALSE
    ELSE ULessEq(a, b, i - 1)

Bias(x) == [x EXCEPT ![Len(x)] = (@ + 128) % 256]

LessEq(x, y) == ULessEq(Bias(x), Bias(y), Len(x))

InInt64Range(x) == LessEq(Int64Min, x) /\ LessEq(x, Int64Max)

\* the struct as a compiler of the default target sees it after one inclusion
TokenDecl ==
    Declarations(IncludeFile(NewTU("x86_64-w64-mingw32", 0, {}), HeaderLines).out)[1]

TokenLayout == Layout(FieldsOf(TokenDecl), "x86_64-w64-mingw32", 0)

ValueField == TokenLayout.fields[1]

Dead == <<>>

ZeroToken == [i \in 1..TokenLayout.size |-> 0]

\* conversion of an integer to the field's type keeps the low bytes
\* (the value modulo 2^(8*size))
ToField(x, f) == SubSeq(x, 1, f.size)

FromFieldUnsigned(b, f) ==
    b \o [i \in 1..(IntBytes - f.size) |-> 0]

\* the integer a field's bytes stand for: a signed type extends the sign
FromField(b, f) ==
    b \o [i \in 1..(IntBytes - f.size) |-> IF b[f.size] >= 128 THEN 255 ELSE 0]

ReadBytes(obj, f) == SubSeq(obj, f.offset + 1, f.offset + f.size)

WriteBytes(obj, f, b) ==
    [i \in 1..Len(obj) |->
        IF i > f.offset /\ i <= f.offset + f.size THEN b[i - f.offset] ELSE obj[i]]

\* tok.value
GetValue(obj) == FromField(ReadBytes(obj, ValueField), ValueField)

\* tok.value = x
SetValue(obj, x) == WriteBytes(obj, ValueField, ToField(x, ValueField))

RECURSIVE CopyFields(_, _, _)
CopyFields(dst, src, fields) ==
    IF fields = <<>> THEN dst
    ELSE CopyFields(WriteBytes(dst, Head(fields), ReadBytes(src, Head(fields))),
                    src, Tail(fields))

CopyTokenLowHalf(src) ==
    [i \in 1..Len(src) |-> IF i <= 4 THEN src[i] ELSE 0]

\* the implicit copy of the struct: member by member
CopyToken(src) == CopyFields(ZeroToken, src, TokenLayout.fields)

NoOp == [op |-> "none", src |-> 0, dst |-> 0, arg |-> <<>>, pre |-> <<>>]

\* EventRegistrationToken t = { x };
Create(i, x) ==
    /\ objs[i] = Dead
    /\ objs' = [objs EXCEPT ![i] = SetValue(ZeroToken, x)]
    /\ lastOp' = [op |-> "create", src |-> 0, dst |-> i, arg |-> x, pre |-> objs]
    /\ UNCHANGED tus

\* EventRegistrationToken d = s;   or   d = s;
Copy(s, d) ==
    /\ s # d
    /\ objs[s] # Dead
    /\ objs' = [objs EXCEPT ![d] = CopyToken(objs[s])]
    /\ lastOp' = [op |-> "copy", src |-> s, dst |-> d, arg |-> <<>>, pre |-> objs]
    /\ UNCHANGED tus

\* t.value = x;
Modify(i, x) ==
    /\ objs[i] # Dead
    /\ objs' = [objs EXCEPT ![i] = SetValue(@, x)]
    /\ lastOp' = [op |-> "modify", src |-> 0, dst |-> i, arg |-> x, pre |-> objs]
    /\ UNCHANGED tus

\* t goes out of scope
Discard(i) ==
    /\ objs[i] # Dead
    /\ objs' = [objs EXCEPT ![i] = Dead]
    /\ lastOp' = [op |-> "discard", src |-> 0, dst |-> i, arg |-> <<>>, pre |-> objs]
    /\ UNCHANGED tus

(***************************************************************************)
(* Specifications.                                                         *)
(***************************************************************************)
NoObjs == [i \in ObjIds |-> Dead]

Init ==
    /\ tus \in [TUs -> { NewTU(t, p, m) : t \in Targets, p \in Packs, m \in SUBSET EnvMacros }]
    /\ objs = NoObjs
    /\ lastOp = NoOp

Next ==
    \/ \E t \in TUs : IncludeShim(t)
    \/ \E t \in TUs, g \in PlatformGuards : IncludePlatform(t, g)

Spec == Init /\ [][Next]_vars

InitTok ==
    /\ tus = [t \in TUs |-> NewTU("x86_64-w64-mingw32", 0, {})]
    /\ objs = NoObjs
    /\ lastOp = NoOp

NextTok ==
    \/ \E i \in ObjIds, x \in TestInts : Create(i, x)
    \/ \E s \in ObjIds, d \in ObjIds : Copy(s, d)
    \/ \E i \in ObjIds, x \in TestInts : Modify(i, x)
    \/ \E i \in ObjIds : Discard(i)

SpecTok == InitTok /\ [][NextTok]_vars

(***************************************************************************)
(* Properties.                                                             *)
(***************************************************************************)
\* translation units that saw this header only
ShimOnly(t) == tus[t].nShim >= 1 /\ tus[t].nPlat = 0

Int64Field == [name |-> "value", type |-> "int64_t", offset |-> 0, size |-> 8]

\* C1: in every translation unit that includes the header, under every
\* target and packing, EventRegistrationToken occupies 8 bytes and has the
\* single field `value` of type int64_t at offset 0, with no padding.
C1_Layout ==
    \A t \in TUs : ShimOnly(t) =>
        /\ TokenDefs(t) # {}
        /\ \A i \in TokenDefs(t) :
              /\ LayoutIn(t, i).size = 8
              /\ LayoutIn(t, i).fields = <<Int64Field>>

\* a unit built with a 4-byte alignment of int64_t and packing 1 or 2
C1_Witness ==
    \E t \in TUs :
        /\ ShimOnly(t)
        /\ tus[t].target = "i686-pc-linux-gnu"
        /\ tus[t].pack = 2
        /\ \E i \in TokenDefs(t) : LayoutIn(t, i).align = 2

\* C2: any two translation units that include the header get the same size
\* and the same field layout, whatever their target, packing and macros.
C2_SameLayout ==
    \A t1 \in TUs, t2 \in TUs :
        (ShimOnly(t1) /\ ShimOnly(t2)) =>
            \A i \in TokenDefs(t1), j \in TokenDefs(t2) :
                /\ LayoutIn(t1, i).size = LayoutIn(t2, j).size
                /\ LayoutIn(t1, i).fields = LayoutIn(t2, j).fields

\* two units that differ in target, packing and predefined macros
C2_Witness ==
    /\ ShimOnly(1) /\ ShimOnly(2)
    /\ TokenDefs(1) # {} /\ TokenDefs(2) # {}
    /\ tus[1].target # tus[2].target
    /\ tus[1].pack # tus[2].pack
    /\ tus[1].env # tus[2].env

\* C3 as stated: whenever this header and another definition of the struct
\* are both included, in either order, the struct is defined at most once.
C3_AtMostOnce ==
    \A t \in TUs : Cardinality(TokenDefs(t)) <= 1

\* C3 amended: the struct is defined at most once provided the other
\* definition is guarded by the same macro _EVENTTOKEN_H_.
C3_AtMostOnceSameGuard ==
    \A t \in TUs : ~Defined(tus[t].macros, OtherGuard) => Cardinality(TokenDefs(t)) <= 1

FirstFieldType(t) == FieldsOf(Decls(t)[1])[1].type

\* both inclusion orders at once: unit 1 took this header first, unit 2 the
\* other one first, both guarded by _EVENTTOKEN_H_
C3_Witness ==
    /\ \A t \in TUs :
          /\ tus[t].nShim >= 1 /\ tus[t].nPlat >= 1
          /\ ~Defined(tus[t].macros, OtherGuard)
          /\ Cardinality(TokenDefs(t)) = 1
    /\ FirstFieldType(1) = "int64_t"
    /\ FirstFieldType(2) = "__int64"

\* C6: after n >= 1 inclusions of the header the translation unit is what
\* one inclusion makes of it: the guard macro is defined, the struct is
\* defined exactly once, and macros, headers and text are those of a
\* single inclusion.
C6_Idempotent ==
    \A t \in TUs : ShimOnly(t) =>
        LET once == IncludeFile(NewTU(tus[t].target, tus[t].pack, tus[t].env), HeaderLines)
        IN /\ Defined(tus[t].macros, Guard)
           /\ Cardinality(TokenDefs(t)) = 1
           /\ tus[t].macros = once.macros
           /\ tus[t].included = once.included
           /\ tus[t].out = once.out

C6_Witness ==
    \E t \in TUs : ShimOnly(t) /\ tus[t].nShim = MaxIncludes /\ Cardinality(TokenDefs(t)) = 1

\* C7: a translation unit that includes only this header gets exactly one
\* declaration, the typedef'd struct EventRegistrationToken, one new macro,
\* the guard, and one further header, <stdint.h>.
C7_OneEntity ==
    \A t \in TUs : ShimOnly(t) =>
        /\ Len(Decls(t)) = 1
        /\ DeclKind(Decls(t)[1]) = "typedef struct"
        /\ StructTag(Decls(t)[1]) = "EventRegistrationToken"
        /\ TypedefName(Decls(t)[1]) = "EventRegistrationToken"
        /\ { m[1] : m \in tus[t].macros \ tus[t].env } = {Guard}
        /\ tus[t].included = {"stdint.h"}

C7_Witness ==
    \E t \in TUs : ShimOnly(t) /\ tus[t].env # {} /\ Len(Decls(t)) = 1

Alive(i) == objs[i] # Dead

C5_Range ==
    /\ \A i \in ObjIds : Alive(i) => InInt64Range(GetValue(objs[i]))
    /\ (lastOp.op \in {"create", "modify"} /\ InInt64Range(lastOp.arg)) =>
          GetValue(objs[lastOp.dst]) = lastOp.arg

\* the least value has just been stored while another token holds 0
C5_Witness ==
    /\ lastOp.op \in {"create", "modify"}
    /\ lastOp.arg = Int64Min
    /\ GetValue(objs[lastOp.dst]) = Int64Min
    /\ \E j \in ObjIds : Alive(j) /\ GetValue(objs[j]) = IntZero

====
